---- MODULE Spec2Model ----
(***************************************************************************)
(* Model of src/app.py: the Streamlit chat script over two Pinecone        *)
(* vector stores.  One session; every interaction re-runs the script from  *)
(* top to bottom.  The run is cut into steps at every call to an external  *)
(* provider (index search, prompt hub, completion), because each of those  *)
(* may return or raise.  pc is the position of the running script, "idle"  *)
(* when the page is waiting for the next interaction.                      *)
(***************************************************************************)
EXTENDS Integers, Sequences, FiniteSets, TLC

\* ---------------------------------------------------------------- bounds
MaxTurns == 2       \* question turns a session completes
MaxHits == 2        \* longest result list an index returns for one search

\* ------------------------------------------------------ values of the model
Passages == {"p1", "p2"}              \* page contents the indexes can return
Questions == {"q1", "q2"}             \* non-empty texts typed in the form
Completions == {"a1", "a2"}           \* texts the completion provider returns

RECURSIVE SeqsUpTo(_, _)
SeqsUpTo(S, n) ==
  IF n = 0 THEN {<<>>}
  ELSE LET shorter == SeqsUpTo(S, n - 1)
       IN shorter \cup {Append(s, x) : s \in {t \in shorter : Len(t) = n - 1}, x \in S}

\* every list of documents one similarity search may return
Results == SeqsUpTo(Passages, MaxHits)

\* the two module-level vector stores (lines 33-34)
inovations_vectorstore == "inovations_vectorstore"
economics_vectorstore == "economics_vectorstore"
Stores == {inovations_vectorstore, economics_vectorstore}

\* the fixed "no relevant information" message (lines 70 and 169, same literal)
Fallback == "Ne namiram relevantna informatsiya za tozi vapros v uchebnitsite."

\* the instruction template of get_response (lines 73-79), as one token of text
combined_instruction == <<"instruction-template">>

\* f"{combined_instruction}\n{query}" (line 81): template, a newline, the query
FullQuery_dropq(query) == combined_instruction \o <<"\n">>
FullQuery(query) == combined_instruction \o <<"\n">> \o <<query>>

\* the truth value Python gives a list: non-empty
Truthy(docs) == docs # <<>>

\* the if/elif chain of get_subject_from_query (lines 52-59)
Select_or(inov, econ) ==
  IF Truthy(inov) \/ Truthy(econ)
    THEN <<"both", <<inovations_vectorstore, economics_vectorstore>>>>
  ELSE <<"unknown", <<>>>>
Select(inov, econ) ==
  IF Truthy(inov) /\ Truthy(econ)
    THEN <<"both", <<inovations_vectorstore, economics_vectorstore>>>>
  ELSE IF Truthy(inov) THEN <<"inovations", <<inovations_vectorstore>>>>
  ELSE IF Truthy(econ) THEN <<"economics", <<economics_vectorstore>>>>
  ELSE <<"unknown", <<>>>>

\* MultiSubjectRetriever.__init__ (lines 37-38): the stores the retriever walks
MultiSubjectRetriever_all(vectorstores) ==
  <<inovations_vectorstore, economics_vectorstore>>
MultiSubjectRetriever(vectorstores) == vectorstores

\* all_docs.extend(docs) (line 44)
Extend_front(all, docs) == docs \o all
Extend(all, docs) == all \o docs

\* the condition of the submit handler (line 162)
Submitted_any(sb, ui) == sb
Submitted(sb, ui) == sb /\ ui # ""

\* one block of the display loop (lines 178-196)
Block(turn) ==
  IF turn[1] = "User"
    THEN [icon |-> "user-icon", class |-> "user-message", label |-> "User:", message |-> turn[2]]
    ELSE [icon |-> "bot-icon", class |-> "bot-message", label |-> "Bot:", message |-> turn[2]]

Open == [icon |-> "", class |-> "chat-container", label |-> "<div>", message |-> ""]
Close == [icon |-> "", class |-> "chat-container", label |-> "</div>", message |-> ""]

\* what lines 175-198 write for a transcript: the container, one block per turn
RenderHistory_rev(h) ==
  <<Open>> \o [i \in 1..Len(h) |-> Block(h[Len(h) + 1 - i])] \o <<Close>>
RenderHistory(h) ==
  <<Open>> \o [i \in 1..Len(h) |-> Block(h[i])] \o <<Close>>

\* one entry of the log of index searches of the running script
Call(store, phase, outcome) == [store |-> store, phase |-> phase, outcome |-> outcome]
Outcome(docs) == IF Truthy(docs) THEN "hits" ELSE "empty"

VARIABLES
  chat_history,     \* st.session_state.chat_history: sequence of <<role, message>>
  pc,               \* position of the running script, "idle" between runs
  submit_button,    \* value of the form's button in this run
  user_input,       \* value of the text input in this run
  inovations_docs,  \* local of get_subject_from_query
  econ_docs,        \* local of get_subject_from_query
  subject,          \* first component returned by get_subject_from_query
  relevant_stores,  \* second component returned by get_subject_from_query
  vectorstores,     \* self.vectorstores of the retriever built by get_response
  store_i,          \* position of the for loop of get_relevant_documents
  all_docs,         \* all_docs of get_relevant_documents, then docs of get_response
  full_query,       \* local of get_response
  final_answer,     \* local of the submit handler
  rendered,         \* the chat container written by the last run that reached it
  status,           \* how the last finished run ended: "none", "ok", "error"
  search_calls,     \* history: index searches issued in this run, in order
  retrieved,        \* history: what each store returned to the gather loop
  llm_calls,        \* history: chain.invoke calls of this run, with arguments
  llm_out,          \* history: what the completion provider returned
  pre_history,      \* history: chat_history when this run started
  prev_status       \* history: status of the run before this one

inputs == <<submit_button, user_input>>
locals == <<inovations_docs, econ_docs, subject, relevant_stores, vectorstores,
            store_i, all_docs, full_query, final_answer>>
history == <<search_calls, retrieved, llm_calls, llm_out, pre_history, prev_status>>
vars == <<chat_history, pc, inputs, locals, rendered, status, history>>

None == "None"
NoDocs == [s \in Stores |-> <<>>]

Turns(h) == Len(h) \div 2

Init ==
  /\ chat_history = <<>>
  /\ pc = "idle"
  /\ submit_button = FALSE
  /\ user_input = ""
  /\ inovations_docs = <<>>
  /\ econ_docs = <<>>
  /\ subject = None
  /\ relevant_stores = <<>>
  /\ vectorstores = <<>>
  /\ store_i = 1
  /\ all_docs = <<>>
  /\ full_query = <<>>
  /\ final_answer = None
  /\ rendered = <<>>
  /\ status = "none"
  /\ search_calls = <<>>
  /\ retrieved = NoDocs
  /\ llm_calls = <<>>
  /\ llm_out = None
  /\ pre_history = <<>>
  /\ prev_status = "none"

\* An interaction starts a run: the form yields (submit_button, user_input),
\* the session keeps chat_history (lines 155-162).
ScriptStart ==
  /\ pc = "idle"
  /\ \E sb \in BOOLEAN, ui \in Questions \cup {""} :
       /\ Submitted(sb, ui) => Turns(chat_history) < MaxTurns
       /\ submit_button' = sb
       /\ user_input' = ui
       /\ pc' = IF Submitted(sb, ui) THEN "probe_inovations" ELSE "render"
  /\ inovations_docs' = <<>>
  /\ econ_docs' = <<>>
  /\ subject' = None
  /\ relevant_stores' = <<>>
  /\ vectorstores' = <<>>
  /\ store_i' = 1
  /\ all_docs' = <<>>
  /\ full_query' = <<>>
  /\ final_answer' = None
  /\ search_calls' = <<>>
  /\ retrieved' = NoDocs
  /\ llm_calls' = <<>>
  /\ llm_out' = None
  /\ pre_history' = chat_history
  /\ prev_status' = status
  /\ UNCHANGED <<chat_history, rendered, status>>

\* An exception of a provider call is caught by nobody (lines 162-172 hold no
\* try): the run ends there, the chat container is not written, the session
\* state stays as it is.
Raise_dangling ==
  /\ pc' = "idle"
  /\ status' = "error"
  /\ rendered' = <<>>
  /\ chat_history' = Append(chat_history, <<"User", user_input>>)
  /\ UNCHANGED <<inputs, locals, retrieved, llm_out, pre_history, prev_status>>
Raise ==
  /\ pc' = "idle"
  /\ status' = "error"
  /\ rendered' = <<>>
  /\ UNCHANGED <<chat_history, inputs, locals, retrieved, llm_out, pre_history, prev_status>>

\* line 49: the probe of the innovations index
ProbeInovations ==
  /\ pc = "probe_inovations"
  /\ \/ \E docs \in Results :
          /\ inovations_docs' = docs
          /\ search_calls' = Append(search_calls, Call(inovations_vectorstore, "probe", Outcome(docs)))
          /\ pc' = "probe_economics"
          /\ UNCHANGED <<chat_history, inputs, econ_docs, subject, relevant_stores,
                         vectorstores, store_i, all_docs, full_query, final_answer,
                         rendered, status, retrieved, llm_calls, llm_out,
                         pre_history, prev_status>>
     \/ /\ search_calls' = Append(search_calls, Call(inovations_vectorstore, "probe", "error"))
        /\ UNCHANGED llm_calls
        /\ Raise

\* line 50: the probe of the economics index
ProbeEconomics_copy ==
  /\ pc = "probe_economics"
  /\ \/ \E docs \in Results :
          /\ econ_docs' = docs
          /\ search_calls' = Append(search_calls, Call(inovations_vectorstore, "probe", Outcome(docs)))
          /\ pc' = "classify"
          /\ UNCHANGED <<chat_history, inputs, inovations_docs, subject, relevant_stores,
                         vectorstores, store_i, all_docs, full_query, final_answer,
                         rendered, status, retrieved, llm_calls, llm_out,
                         pre_history, prev_status>>
     \/ /\ search_calls' = Append(search_calls, Call(inovations_vectorstore, "probe", "error"))
        /\ UNCHANGED llm_calls
        /\ Raise
ProbeEconomics ==
  /\ pc = "probe_economics"
  /\ \/ \E docs \in Results :
          /\ econ_docs' = docs
          /\ search_calls' = Append(search_calls, Call(economics_vectorstore, "probe", Outcome(docs)))
          /\ pc' = "classify"
          /\ UNCHANGED <<chat_history, inputs, inovations_docs, subject, relevant_stores,
                         vectorstores, store_i, all_docs, full_query, final_answer,
                         rendered, status, retrieved, llm_calls, llm_out,
                         pre_history, prev_status>>
     \/ /\ search_calls' = Append(search_calls, Call(economics_vectorstore, "probe", "error"))
        /\ UNCHANGED llm_calls
        /\ Raise

\* lines 52-59 and the assignment of line 164
Classify ==
  /\ pc = "classify"
  /\ subject' = Select(inovations_docs, econ_docs)[1]
  /\ relevant_stores' = Select(inovations_docs, econ_docs)[2]
  /\ pc' = "branch"
  /\ UNCHANGED <<chat_history, inputs, inovations_docs, econ_docs, vectorstores,
                 store_i, all_docs, full_query, final_answer, rendered, status, history>>

\* lines 166-169, and lines 64 and 41 when get_response is entered; the
\* frame of get_subject_from_query is gone by now
Branch ==
  /\ pc = "branch"
  /\ inovations_docs' = <<>>
  /\ econ_docs' = <<>>
  /\ IF Truthy(relevant_stores)
       THEN /\ vectorstores' = MultiSubjectRetriever(relevant_stores)
            /\ store_i' = 1
            /\ all_docs' = <<>>
            /\ pc' = "gather"
            /\ UNCHANGED final_answer
       ELSE /\ final_answer' = Fallback
            /\ pc' = "append_user"
            /\ UNCHANGED <<vectorstores, store_i, all_docs>>
  /\ UNCHANGED <<chat_history, inputs, subject, relevant_stores, full_query,
                 rendered, status, history>>

\* lines 42-44: one pass of the for loop, a fresh retrieval from one store
GatherStep ==
  /\ pc = "gather"
  /\ store_i <= Len(vectorstores)
  /\ LET store == vectorstores[store_i] IN
     \/ \E docs \in Results :
          /\ all_docs' = Extend(all_docs, docs)
          /\ retrieved' = [retrieved EXCEPT ![store] = docs]
          /\ search_calls' = Append(search_calls, Call(store, "gather", Outcome(docs)))
          /\ store_i' = store_i + 1
          /\ pc' = IF store_i = Len(vectorstores) THEN "check_docs" ELSE "gather"
          /\ UNCHANGED <<chat_history, inputs, inovations_docs, econ_docs, subject,
                         relevant_stores, vectorstores, full_query, final_answer,
                         rendered, status, llm_calls, llm_out, pre_history, prev_status>>
     \/ /\ search_calls' = Append(search_calls, Call(store, "gather", "error"))
        /\ UNCHANGED llm_calls
        /\ Raise

\* lines 69-81: the empty-evidence guard of get_response, else the full query
CheckDocs_noguard ==
  /\ pc = "check_docs"
  /\ full_query' = FullQuery(user_input)
  /\ pc' = "pull_prompt"
  /\ UNCHANGED <<chat_history, inputs, inovations_docs, econ_docs, subject,
                 relevant_stores, vectorstores, store_i, all_docs, final_answer,
                 rendered, status, history>>
CheckDocs ==
  /\ pc = "check_docs"
  /\ IF ~Truthy(all_docs)
       THEN /\ final_answer' = Fallback
            /\ pc' = "append_user"
            /\ UNCHANGED full_query
       ELSE /\ full_query' = FullQuery(user_input)
            /\ pc' = "pull_prompt"
            /\ UNCHANGED final_answer
  /\ UNCHANGED <<chat_history, inputs, inovations_docs, econ_docs, subject,
                 relevant_stores, vectorstores, store_i, all_docs,
                 rendered, status, history>>

\* lines 84-85: the prompt is pulled from the hub, the chain is built
PullPrompt ==
  /\ pc = "pull_prompt"
  /\ \/ /\ pc' = "invoke"
        /\ UNCHANGED <<chat_history, inputs, locals, rendered, status, history>>
     \/ /\ UNCHANGED <<search_calls, llm_calls>>
        /\ Raise

\* lines 88-93 and the assignment of line 167: the one completion call
Invoke ==
  /\ pc = "invoke"
  /\ \/ \E out \in Completions :
          /\ llm_calls' = Append(llm_calls, [context |-> all_docs, input |-> full_query])
          /\ llm_out' = out
          /\ final_answer' = out
          /\ pc' = "append_user"
          /\ UNCHANGED <<chat_history, inputs, inovations_docs, econ_docs, subject,
                         relevant_stores, vectorstores, store_i, all_docs, full_query,
                         rendered, status, search_calls, retrieved, pre_history, prev_status>>
     \/ /\ llm_calls' = Append(llm_calls, [context |-> all_docs, input |-> full_query])
        /\ UNCHANGED search_calls
        /\ Raise

\* line 171
AppendUser ==
  /\ pc = "append_user"
  /\ chat_history' = Append(chat_history, <<"User", user_input>>)
  /\ pc' = "append_bot"
  /\ UNCHANGED <<inputs, locals, rendered, status, history>>

\* line 172
AppendBot_skip ==
  /\ pc = "append_bot"
  /\ pc' = "render"
  /\ UNCHANGED <<chat_history, inputs, locals, rendered, status, history>>
AppendBot ==
  /\ pc = "append_bot"
  /\ chat_history' = Append(chat_history, <<"Bot", final_answer>>)
  /\ pc' = "render"
  /\ UNCHANGED <<inputs, locals, rendered, status, history>>

\* lines 175-198: the chat container is written from the transcript and the
\* run ends
Render ==
  /\ pc = "render"
  /\ rendered' = RenderHistory(chat_history)
  /\ status' = "ok"
  /\ pc' = "idle"
  /\ UNCHANGED <<chat_history, inputs, locals, history>>

Next ==
  \/ ScriptStart
  \/ ProbeInovations
  \/ ProbeEconomics
  \/ Classify
  \/ Branch
  \/ GatherStep
  \/ CheckDocs
  \/ PullPrompt
  \/ Invoke
  \/ AppendUser
  \/ AppendBot
  \/ Render

Spec == Init /\ [][Next]_vars

TypeOK ==
  /\ pc \in {"idle", "probe_inovations", "probe_economics", "classify", "branch",
             "gather", "check_docs", "pull_prompt", "invoke", "append_user",
             "append_bot", "render"}
  /\ submit_button \in BOOLEAN
  /\ user_input \in Questions \cup {""}
  /\ inovations_docs \in Results /\ econ_docs \in Results
  /\ subject \in {None, "both", "inovations", "economics", "unknown"}
  /\ all_docs \in SeqsUpTo(Passages, 2 * MaxHits)
  /\ status \in {"none", "ok", "error"}
  /\ Len(chat_history) <= 2 * MaxTurns

\* ------------------------------------------------------------ vocabulary

IsPrefix(a, b) == Len(a) <= Len(b) /\ SubSeq(b, 1, Len(a)) = a

\* this run handled a non-empty question up to its answer
Answered ==
  /\ submit_button /\ user_input # ""
  /\ \/ pc \in {"append_user", "append_bot", "render"}
     \/ pc = "idle" /\ status = "ok"

\* this run handled a non-empty question and appended its turn
Completed ==
  /\ submit_button /\ user_input # ""
  /\ \/ pc = "render"
     \/ pc = "idle" /\ status = "ok"

\* this run went through the whole gather loop
Gathered ==
  /\ subject \in {"both", "inovations", "economics"}
  /\ \/ pc \in {"check_docs", "pull_prompt", "invoke", "append_user", "append_bot", "render"}
     \/ pc = "idle" /\ status = "ok"

\* this run ended in an uncaught provider failure
Failed == pc = "idle" /\ status = "error"

ThisTurn == <<<<"User", user_input>>, <<"Bot", final_answer>>>>

CallsTo(store, phase) ==
  {i \in 1..Len(search_calls) :
     search_calls[i].store = store /\ search_calls[i].phase = phase}

ProbeHit(store) ==
  \E i \in CallsTo(store, "probe") : search_calls[i].outcome = "hits"

\* ------------------------------------------------------------------ claims

\* C1: between runs the transcript has even length and alternates User, Bot
\* from its first entry, so no user turn lacks the bot turn after it; a
\* completed turn leaves the transcript it found, extended by exactly
\* (User, question), (Bot, answer).
C1_TurnPairs ==
  /\ pc = "idle" =>
       /\ Len(chat_history) % 2 = 0
       /\ \A i \in 1..Len(chat_history) :
            IF i % 2 = 1
              THEN /\ chat_history[i][1] = "User"
                   /\ i + 1 <= Len(chat_history)
                   /\ chat_history[i + 1][1] = "Bot"
              ELSE chat_history[i][1] = "Bot"
  /\ Completed =>
       /\ Len(chat_history) = Len(pre_history) + 2
       /\ chat_history = pre_history \o ThisTurn

C1_Witness ==
  /\ pc = "idle" /\ Completed
  /\ Len(chat_history) = 4
  /\ chat_history[3] = <<"User", user_input>>

\* C2: every step leaves the old transcript as a prefix of the new one, and a
\* step that changes the transcript is an append of a run whose form was
\* submitted with a non-empty question.
C2_AppendOnly ==
  [][/\ IsPrefix(chat_history, chat_history')
     /\ chat_history' # chat_history =>
          /\ pc \in {"append_user", "append_bot"}
          /\ submit_button /\ user_input # ""]_vars

C2_Witness ==
  /\ pc = "idle" /\ status = "ok"
  /\ submit_button /\ user_input = ""
  /\ Len(chat_history) >= 2
  /\ chat_history = pre_history

\* C3: after classification a store is among the selected stores iff its
\* probe returned a non-empty list, with the label and the store list of
\* each of the four cases.
C3_Select ==
  pc = "branch" =>
    /\ \A st \in Stores :
         (\E i \in 1..Len(relevant_stores) : relevant_stores[i] = st)
           <=> (IF st = inovations_vectorstore THEN inovations_docs ELSE econ_docs) # <<>>
    /\ (inovations_docs # <<>> /\ econ_docs # <<>>) =>
         /\ subject = "both"
         /\ relevant_stores = <<inovations_vectorstore, economics_vectorstore>>
    /\ (inovations_docs # <<>> /\ econ_docs = <<>>) =>
         /\ subject = "inovations"
         /\ relevant_stores = <<inovations_vectorstore>>
    /\ (inovations_docs = <<>> /\ econ_docs # <<>>) =>
         /\ subject = "economics"
         /\ relevant_stores = <<economics_vectorstore>>
    /\ (inovations_docs = <<>> /\ econ_docs = <<>>) =>
         /\ subject = "unknown"
         /\ relevant_stores = <<>>

C3_Witness ==
  /\ pc = "branch"
  /\ Len(inovations_docs) = 2 /\ econ_docs = <<>>
  /\ subject = "inovations"

\* C4: a gather retrieval is issued against a store only after that store's
\* probe of the same run returned hits; with both probes empty there is no
\* gather retrieval, with one probe empty that store gets none.
C4_GatherOnlySelected ==
  /\ \A i \in 1..Len(search_calls) :
       search_calls[i].phase = "gather" =>
         \E j \in 1..(i - 1) :
           /\ search_calls[j].store = search_calls[i].store
           /\ search_calls[j].phase = "probe"
           /\ search_calls[j].outcome = "hits"
  /\ \A st \in Stores :
       (\E j \in CallsTo(st, "probe") : search_calls[j].outcome = "empty")
         => CallsTo(st, "gather") = {}

C4_Witness ==
  /\ pc = "idle" /\ status = "ok"
  /\ ProbeHit(economics_vectorstore) /\ ~ProbeHit(inovations_vectorstore)
  /\ CallsTo(economics_vectorstore, "gather") # {}
  /\ CallsTo(inovations_vectorstore, "probe") # {}

\* C5: an answered question whose evidence is empty (nothing selected, or
\* the selected stores returned nothing to the gather loop) has the fallback
\* string as its answer and no completion call; with nothing selected the
\* transcript gains (User, question), (Bot, fallback).
C5_FallbackNoCompletion ==
  /\ (Answered /\ (subject = "unknown" \/ all_docs = <<>>)) =>
       /\ final_answer = Fallback
       /\ llm_calls = <<>>
       /\ llm_out = None
  /\ (Completed /\ subject = "unknown") =>
       chat_history = pre_history \o <<<<"User", user_input>>, <<"Bot", Fallback>>>>

C5_Witness ==
  /\ Completed /\ pc = "idle"
  /\ subject = "economics" /\ all_docs = <<>>
  /\ chat_history[Len(chat_history)] = <<"Bot", Fallback>>

\* C6: an answered question with non-empty gathered evidence has exactly one
\* completion call, whose context is the whole gathered list and whose input
\* is the template, a newline and the question; the answer, and the bot turn
\* appended, is what the provider returned.
C6_OneCompletionVerbatim ==
  /\ (Answered /\ all_docs # <<>>) =>
       /\ Len(llm_calls) = 1
       /\ llm_calls[1].context = all_docs
       /\ Len(llm_calls[1].context) =
            Len(retrieved[inovations_vectorstore]) + Len(retrieved[economics_vectorstore])
       /\ llm_calls[1].input = combined_instruction \o <<"\n", user_input>>
       /\ llm_out \in Completions
       /\ final_answer = llm_out
  /\ (Completed /\ all_docs # <<>>) =>
       chat_history[Len(chat_history)] = <<"Bot", llm_out>>

C6_Witness ==
  /\ Completed /\ pc = "idle"
  /\ Len(all_docs) = 3
  /\ chat_history[Len(chat_history)] = <<"Bot", "a2">>

\* C7: once the gather loop is over the gathered list is what the selected
\* stores returned, store after store in selection order: with both selected
\* the innovations result followed by the economics result, nothing dropped,
\* reordered or merged.
C7_Concatenation ==
  Gathered =>
    /\ subject = "both" =>
         /\ all_docs = retrieved[inovations_vectorstore] \o retrieved[economics_vectorstore]
         /\ Len(all_docs) =
              Len(retrieved[inovations_vectorstore]) + Len(retrieved[economics_vectorstore])
    /\ subject = "inovations" => all_docs = retrieved[inovations_vectorstore]
    /\ subject = "economics" => all_docs = retrieved[economics_vectorstore]

C7_Witness ==
  /\ Gathered /\ subject = "both"
  /\ retrieved[inovations_vectorstore] = <<"p2", "p1">>
  /\ retrieved[economics_vectorstore] = <<"p1">>
  /\ all_docs = <<"p2", "p1", "p1">>

\* C8: the display step leaves the transcript as it is; what it writes has
\* one block per turn, in the order of the transcript, with the turn's role
\* and message; and when the run before also reached the display step and
\* this run appended nothing, it writes again what was written before.
C8_RenderIdempotent ==
  [][pc = "render" =>
       /\ chat_history' = chat_history
       /\ Len(rendered') = Len(chat_history) + 2
       /\ \A i \in 1..Len(chat_history) :
            /\ rendered'[i + 1].message = chat_history[i][2]
            /\ rendered'[i + 1].label = (IF chat_history[i][1] = "User" THEN "User:" ELSE "Bot:")
       /\ (status = "ok" /\ chat_history = pre_history) => rendered' = rendered]_vars

C8_Witness ==
  /\ pc = "idle" /\ status = "ok" /\ prev_status = "ok"
  /\ chat_history = pre_history
  /\ Len(chat_history) = 4
  /\ chat_history[1][2] # chat_history[3][2]
  /\ Len(rendered) = 6

\* C9: a run ended by a provider failure leaves the transcript as the run
\* found it and produces no answer; the failed call is the last call of the
\* run and no call was issued twice; a failed probe leaves nothing selected
\* and nothing gathered; and the run after a failed one that handles a
\* question appends that question's turn as usual.
C9_FailureLeavesTranscript ==
  /\ Failed =>
       /\ chat_history = pre_history
       /\ final_answer = None
       /\ \A i \in 1..Len(search_calls) :
            search_calls[i].outcome = "error" => i = Len(search_calls)
       /\ \A st \in Stores :
            /\ Cardinality(CallsTo(st, "probe")) <= 1
            /\ Cardinality(CallsTo(st, "gather")) <= 1
       /\ Len(llm_calls) <= 1
       /\ (\E i \in 1..Len(search_calls) :
             search_calls[i].phase = "probe" /\ search_calls[i].outcome = "error") =>
            /\ subject = None
            /\ relevant_stores = <<>>
            /\ \A st \in Stores : CallsTo(st, "gather") = {}
            /\ llm_calls = <<>>
  /\ (prev_status = "error" /\ Completed) =>
       chat_history = pre_history \o ThisTurn

C9_Witness ==
  /\ Failed
  /\ Len(chat_history) = 2
  /\ submit_button /\ user_input # ""
  /\ Len(llm_calls) = 1

\* C10 as stated: in a completed turn each of the two indexes received
\* exactly two search calls.
C10_Original ==
  Completed =>
    \A st \in Stores :
      Cardinality(CallsTo(st, "probe")) + Cardinality(CallsTo(st, "gather")) = 2

\* C10 as amended: in a completed turn each index is searched exactly once
\* for classification, and once more for gathering iff its probe returned
\* hits; so a selected index receives two search calls and an index whose
\* probe was empty receives one.
C10_ProbeOncePlusSelected ==
  Completed =>
    \A st \in Stores :
      /\ Cardinality(CallsTo(st, "probe")) = 1
      /\ Cardinality(CallsTo(st, "gather")) = (IF ProbeHit(st) THEN 1 ELSE 0)
      /\ Len(search_calls) =
           2 + Cardinality({x \in Stores : ProbeHit(x)})

C10_Witness ==
  /\ Completed /\ pc = "idle"
  /\ subject = "inovations"
  /\ Cardinality(CallsTo(inovations_vectorstore, "probe")) = 1
  /\ Cardinality(CallsTo(inovations_vectorstore, "gather")) = 1
  /\ Cardinality(CallsTo(economics_vectorstore, "probe")) = 1
  /\ CallsTo(economics_vectorstore, "gather") = {}

====
